---- MODULE Spec2Model ----
(***************************************************************************)
(* Movement, growth and collision core of the Snake game (src/main.rs).    *)
(*                                                                         *)
(* Positions are the (x, y) part of a Transform's translation; z is 0 for  *)
(* every entity the program spawns and is never written, so it is left     *)
(* out.  All coordinates are whole multiples of OBJECT_SIZE, which f32     *)
(* represents exactly, so integer arithmetic is the program's arithmetic.  *)
(*                                                                         *)
(* The FixedUpdate schedule holds move_snake and check_collisions with no  *)
(* ordering between them (a plain tuple, no .chain()), so either may run   *)
(* first in a tick.  Commands (spawn, despawn) are queued and applied when *)
(* the schedule's systems have run.  handle_input runs in Update, between  *)
(* FixedUpdate ticks.                                                      *)
(***************************************************************************)
EXTENDS Integers, Sequences, FiniteSets, TLC

----------------------------------------------------------------------------
(* Program constants *)

OBJECT_SIZE == 32
WINDOW_WIDTH == 16 * OBJECT_SIZE
WINDOW_HEIGHT == 16 * OBJECT_SIZE
SNAKE_SPEED == OBJECT_SIZE * 1

----------------------------------------------------------------------------
(* Bounds of the model *)

\* Spec keeps the head within MaxReach cells of the origin on each axis and
\* draws orb cells from the same square.
MaxReach == 1
\* Spec stops growing the body beyond MaxBody segments.
MaxBody == 2
\* At most MaxKeys keys are held down in one intake pass.
MaxKeys == 2

----------------------------------------------------------------------------
(* Direction and key mapping *)

Direction == {"Up", "Down", "Left", "Right"}

\* The eight mapped key codes and one representative of all the others.
KeyCode ==
    {"ArrowUp", "KeyW", "ArrowDown", "KeyS",
     "ArrowLeft", "KeyA", "ArrowRight", "KeyD", "Space"}

ArrowKeys == {"ArrowUp", "ArrowDown", "ArrowLeft", "ArrowRight"}

try_from(key) ==
    CASE key \in {"ArrowUp", "KeyW"} -> "Up"
      [] key \in {"ArrowDown", "KeyS"} -> "Down"
      [] key \in {"ArrowLeft", "KeyA"} -> "Left"
      [] key \in {"ArrowRight", "KeyD"} -> "Right"
      [] OTHER -> "Err"

is_opposite_no_horizontal(self, other) ==
    <<self, other>> \in {<<"Up", "Down">>, <<"Down", "Up">>}

is_opposite(self, other) ==
    <<self, other>> \in
        {<<"Up", "Down">>, <<"Down", "Up">>,
         <<"Left", "Right">>, <<"Right", "Left">>}

turn_unchecked(direction, new_direction) == new_direction

turn(direction, new_direction) ==
    IF ~is_opposite(direction, new_direction)
    THEN turn_unchecked(direction, new_direction)
    ELSE direction

\* handle_input's loop over the pressed keys, in the order the iterator
\* yields them: unmapped keys are skipped, mapped ones go through turn.
RECURSIVE apply_keys(_, _)
apply_keys(direction, keys) ==
    IF keys = <<>> THEN direction
    ELSE LET d == try_from(Head(keys)) IN
         apply_keys(IF d = "Err" THEN direction ELSE turn(direction, d),
                    Tail(keys))

\* The orders in which up to n distinct keys of K can be iterated.
KeySeqs(K, n) ==
    {s \in UNION {[1..m -> K] : m \in 0..n} :
        \A a, b \in DOMAIN s : a # b => s[a] # s[b]}

----------------------------------------------------------------------------
(* Movement *)

\* A step whose Left and Right also drift one cell up.
step_drifting(translation, direction) ==
    LET x == translation[1]
        y == translation[2]
    IN CASE direction = "Up" ->
              LET y1 == y + SNAKE_SPEED IN
              <<x, IF y1 > WINDOW_HEIGHT \div 2 THEN y1 - WINDOW_HEIGHT ELSE y1>>
         [] direction = "Down" ->
              LET y1 == y - SNAKE_SPEED IN
              <<x, IF y1 < (-WINDOW_HEIGHT) \div 2 THEN y1 + WINDOW_HEIGHT ELSE y1>>
         [] direction = "Left" ->
              LET x1 == x - SNAKE_SPEED IN
              <<IF x1 < (-WINDOW_WIDTH) \div 2 THEN x1 + WINDOW_WIDTH ELSE x1,
                IF y < WINDOW_HEIGHT \div 2 THEN y + SNAKE_SPEED ELSE y>>
         [] direction = "Right" ->
              LET x1 == x + SNAKE_SPEED IN
              <<IF x1 > WINDOW_WIDTH \div 2 THEN x1 - WINDOW_WIDTH ELSE x1,
                IF y < WINDOW_HEIGHT \div 2 THEN y + SNAKE_SPEED ELSE y>>

step(translation, direction) ==
    LET x == translation[1]
        y == translation[2]
    IN CASE direction = "Up" ->
              LET y1 == y + SNAKE_SPEED IN
              <<x, IF y1 > WINDOW_HEIGHT \div 2 THEN y1 - WINDOW_HEIGHT ELSE y1>>
         [] direction = "Down" ->
              LET y1 == y - SNAKE_SPEED IN
              <<x, IF y1 < (-WINDOW_HEIGHT) \div 2 THEN y1 + WINDOW_HEIGHT ELSE y1>>
         [] direction = "Left" ->
              LET x1 == x - SNAKE_SPEED IN
              <<IF x1 < (-WINDOW_WIDTH) \div 2 THEN x1 + WINDOW_WIDTH ELSE x1, y>>
         [] direction = "Right" ->
              LET x1 == x + SNAKE_SPEED IN
              <<IF x1 > WINDOW_WIDTH \div 2 THEN x1 - WINDOW_WIDTH ELSE x1, y>>

\* A propagation that hands every segment the head's old position.
RECURSIVE propagate_no_roll(_, _)
propagate_no_roll(segments, last) ==
    IF segments = <<>> THEN [body |-> <<>>, last |-> last]
    ELSE LET r == propagate_no_roll(Tail(segments), last) IN
         [body |-> <<last>> \o r.body, last |-> Head(segments)]

\* move_snake's pass over the body: each segment swaps its translation with
\* last_translation.  Yields the new body and the final last_translation.
RECURSIVE propagate(_, _)
propagate(segments, last) ==
    IF segments = <<>> THEN [body |-> <<>>, last |-> last]
    ELSE LET r == propagate(Tail(segments), Head(segments)) IN
         [body |-> <<last>> \o r.body, last |-> r.last]

----------------------------------------------------------------------------
(* Random orb position *)

\* get_random_position for the two values i, j that random_range(0..16)
\* returned.
get_random_position(i, j) ==
    <<(i - ((WINDOW_WIDTH \div OBJECT_SIZE) \div 2)) * OBJECT_SIZE,
      (j - ((WINDOW_HEIGHT \div OBJECT_SIZE) \div 2)) * OBJECT_SIZE>>

\* random_range(0..=16): the upper end included.
RandomRangeInclusive == 0..(WINDOW_WIDTH \div OBJECT_SIZE)

\* Every value random_range(0..16) can return.
RandomRange == 0..((WINDOW_WIDTH \div OBJECT_SIZE) - 1)

\* The draws Spec explores: the cells within MaxReach of the origin.
RandomDraws ==
    {i \in RandomRange :
        /\ i - (WINDOW_WIDTH \div OBJECT_SIZE) \div 2 <= MaxReach
        /\ (WINDOW_WIDTH \div OBJECT_SIZE) \div 2 - i <= MaxReach}

Abs(n) == IF n < 0 THEN -n ELSE n

InReach(p) ==
    /\ Abs(p[1]) <= MaxReach * OBJECT_SIZE
    /\ Abs(p[2]) <= MaxReach * OBJECT_SIZE

----------------------------------------------------------------------------
(* State *)

VARIABLES
    head,              \* the head's translation
    direction,         \* SnakeHead.direction
    image,             \* the head sprite's image
    body,              \* the SnakeBody translations, in query order
    orb,               \* the orb's translation
    ran,               \* the systems that have run in the current tick
    cmds,              \* the queued Commands of the current tick
    last_translation,  \* move_snake's last_translation when it returned
    seen,              \* what check_collisions read when it ran this tick
    consumed,          \* orbs consumed since the last crash
    intake,            \* the last intake pass: heading before it, keys
    heads,             \* the number of SnakeHead entities
    orbs,              \* the number of Orb entities
    panicked,          \* an unwrap has failed: the process is gone
    heading_moved      \* SpecStep: the heading the last step used

vars ==
    <<head, direction, image, body, orb, ran, cmds, last_translation, seen,
      consumed, intake, heads, orbs, panicked, heading_moved>>

\* despawn: the body segments (by place in the query) queued for despawn;
\* singles: the head and orb markers queued for despawn; spawn: the
\* translations of the body segments queued for spawn.
NoCmds == [despawn |-> {}, singles |-> {}, spawn |-> <<>>]
NoHeading == "None"
NoTranslation == <<>>
NotSeen == [head |-> <<>>, body |-> <<>>, orb |-> <<>>]

----------------------------------------------------------------------------
(* Startup *)

spawn_snake_body(spawned, translation) == Append(spawned, translation)

setup ==
    /\ head = <<0, 0>>
    /\ direction = "Up"
    /\ image = "head.png"
    /\ body = spawn_snake_body(<<>>, <<0, -OBJECT_SIZE>>)
    /\ \E i, j \in RandomDraws : orb = get_random_position(i, j)
    /\ ran = <<>>
    /\ cmds = NoCmds
    /\ last_translation = NoTranslation
    /\ seen = NotSeen
    /\ consumed = 0
    /\ intake = [from |-> direction, keys |-> <<>>]
    /\ heads = 1
    /\ orbs = 1
    /\ panicked = FALSE
    /\ heading_moved = NoHeading

----------------------------------------------------------------------------
(* Systems *)

Ran(system) == \E k \in DOMAIN ran : ran[k] = system

\* Query::single_mut gives the entity when exactly one matches.
single_mut(count) == count = 1

\* A system that leaves without a panic when its entity is missing.
returns_early(system) ==
    /\ ran' = Append(ran, system)
    /\ UNCHANGED <<head, direction, image, body, orb, cmds, last_translation,
                   seen, consumed, intake, heads, orbs, panicked, heading_moved>>

\* .unwrap() on a failed single_mut: the system panics where it stands.
unwrap_failed(system) ==
    /\ panicked' = TRUE
    /\ UNCHANGED <<head, direction, image, body, orb, ran, cmds,
                   last_translation, seen, consumed, intake, heads, orbs,
                   heading_moved>>

\* iter_mut over the heads: with no head the loop body never runs.
handle_input(keys) ==
    /\ ~panicked
    /\ ran = <<>>
    /\ direction' = IF heads >= 1 THEN apply_keys(direction, keys) ELSE direction
    /\ UNCHANGED <<head, image, body, orb, ran, cmds, last_translation, seen,
                   consumed, heads, orbs, panicked, heading_moved>>

\* Lines 206-212: the head steps and the body follows.
movement ==
    LET clone_translation == head
        moved == step(head, direction)
        pass == propagate(body, clone_translation)
    IN /\ head' = moved
       /\ body' = pass.body
       /\ last_translation' = pass.last
       /\ UNCHANGED <<direction, image, orb, cmds, seen, consumed, intake,
                      heads, orbs, panicked>>

\* A movement that halts for good once the head has crashed.
move_snake_until_crash ==
    /\ image = "head.png"
    /\ ~panicked
    /\ ~Ran("move_snake")
    /\ Len(ran) < 2
    /\ IF single_mut(heads)
       THEN /\ InReach(step(head, direction))
            /\ movement
            /\ ran' = Append(ran, "move_snake")
            /\ UNCHANGED heading_moved
       ELSE unwrap_failed("move_snake")

move_snake ==
    /\ ~panicked
    /\ ~Ran("move_snake")
    /\ Len(ran) < 2
    /\ IF single_mut(heads)
       THEN /\ InReach(step(head, direction))
            /\ movement
            /\ ran' = Append(ran, "move_snake")
            /\ UNCHANGED heading_moved
       ELSE unwrap_failed("move_snake")

\* A body query with no marker filter: every entity with a Transform.
every_transform == {"SnakeBody", "SnakeHead", "Orb"}

\* Line 163: the markers of the entities snake_body_query matches.
snake_body_query == {"SnakeBody"}

\* The loop of lines 169-174.
hits_body_always(snake_head_translation, segments) == TRUE

hits_body_first_only(snake_head_translation, segments) ==
    segments # <<>> /\ snake_head_translation = segments[1]

hits_body(snake_head_translation, segments) ==
    \E k \in DOMAIN segments : snake_head_translation = segments[k]

\* Lines 176-179: the despawn commands a crash queues.
despawn_none(crashed, segments) == {}

\* despawn_all that spares the first segment.
despawn_tail_only(crashed, segments) ==
    IF crashed THEN DOMAIN segments \ {1} ELSE {}

despawn_all(crashed, segments) ==
    IF crashed THEN DOMAIN segments ELSE {}

\* Lines 183-189, the part that queues the spawn.
grow_twice(eats, snake_head_translation) ==
    IF eats
    THEN spawn_snake_body(spawn_snake_body(<<>>, snake_head_translation),
                          snake_head_translation)
    ELSE <<>>

grow(eats, snake_head_translation) ==
    IF eats THEN spawn_snake_body(<<>>, snake_head_translation) ELSE <<>>

\* check_collisions, with random_range giving a value of draws.
collisions(draws) ==
    /\ ~panicked
    /\ ~Ran("check_collisions")
    /\ Len(ran) < 2
    /\ IF single_mut(orbs) /\ single_mut(heads)
       THEN LET orb_translation == orb
                snake_head_translation == head
                crashed == hits_body(snake_head_translation, body)
                eats == (orb_translation = snake_head_translation)
                spawned == grow(eats, snake_head_translation)
            IN /\ (IF crashed THEN 0 ELSE Len(body)) + (IF eats THEN 1 ELSE 0)
                      <= MaxBody
               /\ image' = IF crashed THEN "head_2.png" ELSE image
               /\ IF eats
                  THEN \E i, j \in draws : orb' = get_random_position(i, j)
                  ELSE orb' = orb
               /\ cmds' =
                    [despawn |-> cmds.despawn \cup despawn_all(crashed, body),
                     singles |-> cmds.singles \cup
                         (IF crashed
                          THEN snake_body_query \cap {"SnakeHead", "Orb"}
                          ELSE {}),
                     spawn |-> cmds.spawn \o spawned]
               /\ consumed' =
                    (IF crashed THEN 0 ELSE consumed) + (IF eats THEN 1 ELSE 0)
               /\ seen' = [head |-> head, body |-> body, orb |-> orb]
               /\ ran' = Append(ran, "check_collisions")
               /\ UNCHANGED <<head, direction, body, last_translation, intake,
                              heads, orbs, panicked, heading_moved>>
       ELSE unwrap_failed("check_collisions")

check_collisions == collisions(RandomDraws)

\* The segments of b that no queued despawn names, in order.
RECURSIVE survivors(_, _, _)
survivors(b, despawn, k) ==
    IF k > Len(b) THEN <<>>
    ELSE (IF k \in despawn THEN <<>> ELSE <<b[k]>>) \o survivors(b, despawn, k + 1)

\* The end of a FixedUpdate run: the queued commands are applied in order
\* (the despawns come before the spawn) and the tick is over.
apply_deferred ==
    /\ Len(ran) = 2
    /\ ~panicked
    /\ body' = survivors(body, cmds.despawn, 1) \o cmds.spawn
    /\ heads' = IF "SnakeHead" \in cmds.singles THEN 0 ELSE heads
    /\ orbs' = IF "Orb" \in cmds.singles THEN 0 ELSE orbs
    /\ cmds' = NoCmds
    /\ ran' = <<>>
    /\ last_translation' = NoTranslation
    /\ seen' = NotSeen
    /\ UNCHANGED <<head, direction, image, orb, consumed, intake, panicked,
                   heading_moved>>

Update ==
    \E keys \in KeySeqs(ArrowKeys, MaxKeys) :
        handle_input(keys) /\ UNCHANGED intake

Init == setup

Next ==
    \/ Update
    \/ move_snake
    \/ check_collisions
    \/ apply_deferred

Spec == Init /\ [][Next]_vars

----------------------------------------------------------------------------
(* SpecInput: direction intake alone.  Every heading is one the head can   *)
(* hold at startup time (turns are accepted before the first tick), and    *)
(* each pass records the heading it started from and the keys it iterated. *)

InitInput ==
    /\ head = <<0, 0>>
    /\ direction \in Direction
    /\ image = "head.png"
    /\ body = spawn_snake_body(<<>>, <<0, -OBJECT_SIZE>>)
    /\ orb = get_random_position(0, 0)
    /\ ran = <<>>
    /\ cmds = NoCmds
    /\ last_translation = NoTranslation
    /\ seen = NotSeen
    /\ consumed = 0
    /\ intake = [from |-> direction, keys |-> <<>>]
    /\ heads = 1
    /\ orbs = 1
    /\ panicked = FALSE
    /\ heading_moved = NoHeading

Intake ==
    \E keys \in KeySeqs(KeyCode, MaxKeys) :
        /\ handle_input(keys)
        /\ intake' = [from |-> direction, keys |-> keys]

NextInput == Intake

SpecInput == InitInput /\ [][NextInput]_vars

----------------------------------------------------------------------------
(* SpecStep: the head's step and turn alone, on the whole 16 x 16 grid,    *)
(* from the startup position.  The body follows the head; the orb and the  *)
(* collision pass play no part.                                            *)

StepOnly ==
    /\ movement
    /\ heading_moved' = direction
    /\ UNCHANGED ran

TurnOnly ==
    \E d \in Direction :
        /\ direction' = turn(direction, d)
        /\ UNCHANGED <<head, image, body, orb, ran, cmds, last_translation,
                       seen, consumed, intake, heads, orbs, panicked,
                       heading_moved>>

InitStep ==
    /\ head = <<0, 0>>
    /\ direction = "Up"
    /\ image = "head.png"
    /\ body = spawn_snake_body(<<>>, <<0, -OBJECT_SIZE>>)
    /\ orb = get_random_position(0, 0)
    /\ ran = <<>>
    /\ cmds = NoCmds
    /\ last_translation = NoTranslation
    /\ seen = NotSeen
    /\ consumed = 0
    /\ intake = [from |-> direction, keys |-> <<>>]
    /\ heads = 1
    /\ orbs = 1
    /\ panicked = FALSE
    /\ heading_moved = NoHeading

NextStep ==
    \/ StepOnly
    \/ TurnOnly

SpecStep == InitStep /\ [][NextStep]_vars

----------------------------------------------------------------------------
(* SpecOrb: the game with the orb placed, at startup and at every          *)
(* relocation, on any of the cells get_random_position can return.         *)

InitOrb ==
    /\ head = <<0, 0>>
    /\ direction = "Up"
    /\ image = "head.png"
    /\ body = spawn_snake_body(<<>>, <<0, -OBJECT_SIZE>>)
    /\ \E i, j \in RandomRange : orb = get_random_position(i, j)
    /\ ran = <<>>
    /\ cmds = NoCmds
    /\ last_translation = NoTranslation
    /\ seen = NotSeen
    /\ consumed = 0
    /\ intake = [from |-> direction, keys |-> <<>>]
    /\ heads = 1
    /\ orbs = 1
    /\ panicked = FALSE
    /\ heading_moved = NoHeading

check_collisions_any == collisions(RandomRange)

NextOrb ==
    \/ Update
    \/ move_snake
    \/ check_collisions_any
    \/ apply_deferred

SpecOrb == InitOrb /\ [][NextOrb]_vars

----------------------------------------------------------------------------
(* SpecAbsent: the game started from a world in which the head, the orb or *)
(* both may be missing.  No run of the program reaches such a world; it is *)
(* the input of the systems' single_mut().unwrap() failure path.           *)

InitAbsent ==
    /\ head = <<0, 0>>
    /\ direction = "Up"
    /\ image = "head.png"
    /\ body = spawn_snake_body(<<>>, <<0, -OBJECT_SIZE>>)
    /\ \E i, j \in RandomDraws : orb = get_random_position(i, j)
    /\ ran = <<>>
    /\ cmds = NoCmds
    /\ last_translation = NoTranslation
    /\ seen = NotSeen
    /\ consumed = 0
    /\ intake = [from |-> direction, keys |-> <<>>]
    /\ heads \in {0, 1}
    /\ orbs \in {0, 1}
    /\ panicked = FALSE
    /\ heading_moved = NoHeading

SpecAbsent == InitAbsent /\ [][Next]_vars

----------------------------------------------------------------------------
(* Properties *)

\* The heading exactly opposite to each heading.
OppositeHeading ==
    [d \in Direction |->
        CASE d = "Up" -> "Down"
          [] d = "Down" -> "Up"
          [] d = "Left" -> "Right"
          [] d = "Right" -> "Left"]

\* A step of the named system, and the step that ends a tick.
MoveStep == ran' = Append(ran, "move_snake")
CheckStep == ran' = Append(ran, "check_collisions")
TickEnd == Len(ran) = 2 /\ ran' = <<>>
\* The end of a tick that ran move_snake and then check_collisions.
InOrderTickEnd == TickEnd /\ ran = <<"move_snake", "check_collisions">>

\* What check_collisions read in this tick: the head on a segment, on the orb.
SeenCrash == \E k \in DOMAIN seen.body : seen.body[k] = seen.head
SeenOrb == seen.head = seen.orb

\* C1: a pass that makes one turn request R from heading H leaves the
\* heading at H when R is the exact opposite of H, and sets it to R otherwise
\* (R = H included).
C1_TurnContract ==
    (Len(intake.keys) = 1 /\ try_from(intake.keys[1]) # "Err") =>
        LET H == intake.from
            R == try_from(intake.keys[1])
        IN direction = (IF R = OppositeHeading[H] THEN H ELSE R)

\* Heading Up, request Down: the heading is still Up.
C1_Witness ==
    /\ intake = [from |-> "Up", keys |-> <<"ArrowDown">>]
    /\ direction = "Up"

\* C2: after any move step both head coordinates lie in [-extent/2, extent/2).
InHalfOpenGrid(p) ==
    /\ -(WINDOW_WIDTH \div 2) <= p[1] /\ p[1] < WINDOW_WIDTH \div 2
    /\ -(WINDOW_HEIGHT \div 2) <= p[2] /\ p[2] < WINDOW_HEIGHT \div 2

C2_WrapInvariant == [][head' # head => InHalfOpenGrid(head')]_vars

\* C3: a movement over a body of n >= 1 segments gives segment 1 the head's
\* pre-move position and segment k > 1 the pre-move position of segment k-1;
\* from head (0,0) heading Up with body [(0,-32)] it yields head (0,32) and
\* body [(0,0)].
C3_Trailing ==
    [][MoveStep =>
        /\ Len(body') = Len(body)
        /\ Len(body) >= 1 => body'[1] = head
        /\ \A k \in 2..Len(body) : body'[k] = body[k - 1]
        /\ (head = <<0, 0>> /\ direction = "Up" /\ body = << <<0, -32>> >>) =>
              (head' = <<0, 32>> /\ body' = << <<0, 0>> >>)]_vars

\* move_snake has just run over two segments at different places.
C3_Witness ==
    /\ Ran("move_snake")
    /\ Len(body) = 2
    /\ body[1] # body[2]
    /\ last_translation # NoTranslation

\* C4 (for a tick that moved first): when the head consumes the orb, the
\* tick ends with a new last segment lying at the final last_translation of
\* that tick's movement (the tail's pre-move position).
C4_GrowsAtOldTail ==
    [][(InOrderTickEnd /\ SeenOrb) =>
        (body' # <<>> /\ body'[Len(body')] = last_translation)]_vars

\* C5 as stated (for a tick that moved first, so that check_collisions
\* compared the post-move position): a tick whose post-move head position
\* equals the orb's position ends with the body one segment longer than
\* before the tick.
C5_OrbAlwaysAddsOne ==
    [][(InOrderTickEnd /\ head = seen.orb) => Len(body') = Len(body) + 1]_vars

\* C5 amended: a tick in which check_collisions finds the head on the orb
\* adds exactly one segment: the body ends one longer than before the tick,
\* or with exactly one segment when the same pass also found a
\* self-collision.
C5_OrbAddsOneSegment ==
    [][(TickEnd /\ SeenOrb) =>
        Len(body') = (IF SeenCrash THEN 0 ELSE Len(body)) + 1]_vars

\* After move_snake, check_collisions found the head on the orb and no
\* self-collision, and queued one spawn.
C5_Witness ==
    /\ ran = <<"move_snake", "check_collisions">>
    /\ SeenOrb /\ ~SeenCrash
    /\ Len(body) >= 1
    /\ Len(cmds.spawn) = 1

\* C6 as stated (for a tick that moved first): a tick whose post-move head
\* position equals a body segment's position ends with no body segment and
\* the crashed image.
C6_CrashAlwaysEmpties ==
    [][(InOrderTickEnd /\ \E k \in DOMAIN body : body[k] = head) =>
        (Len(body') = 0 /\ image' = "head_2.png")]_vars

\* C6 amended: a tick in which check_collisions finds the head on a body
\* segment destroys every segment that existed: the body ends empty, or
\* holds only the one new segment when the orb was consumed in the same
\* pass; the head has the crashed image.
C6_CrashDestroysBody ==
    [][(TickEnd /\ SeenCrash) =>
        /\ body' = (IF SeenOrb THEN <<seen.head>> ELSE <<>>)
        /\ image' = "head_2.png"]_vars

\* After move_snake, check_collisions found the head on a body segment.
C6_Witness ==
    /\ ran = <<"move_snake", "check_collisions">>
    /\ SeenCrash
    /\ cmds.despawn = DOMAIN body
    /\ image = "head_2.png"

\* C7 as stated: between ticks the body has as many segments as orbs were
\* consumed since the last crash.
C7_CountIsConsumed == ran = <<>> => Len(body) = consumed

\* C7 amended: between ticks the body has as many segments as orbs were
\* consumed since the last crash (the crash tick's own orb included), plus
\* the segment spawned at startup as long as no crash has happened.
C7_CountIsConsumedPlusSeed ==
    ran = <<>> =>
        Len(body) = consumed + (IF image = "head.png" THEN 1 ELSE 0)

\* Between ticks, after a crash, with one orb consumed since.
C7_Witness ==
    /\ ran = <<>>
    /\ image = "head_2.png"
    /\ consumed = 1
    /\ Len(body) = 1

\* C8: after one intake pass the heading is never the opposite of the
\* heading before the pass.
C8_NoReversalInOnePass == direction # OppositeHeading[intake.from]

\* C9: in every tick check_collisions runs after that tick's move_snake.
C9_MoveBeforeCheck == [][CheckStep => Ran("move_snake")]_vars

\* C10: when the head position check_collisions compares matches neither the
\* orb nor a body segment, the pass changes nothing (head, heading, image,
\* body, orb) and queues no command, and the end of the tick creates,
\* destroys and relocates nothing.
C10_NonCollisionFrame ==
    [][/\ (CheckStep /\ head # orb /\ \A k \in DOMAIN body : body[k] # head) =>
            /\ UNCHANGED <<head, direction, image, body, orb>>
            /\ cmds' = cmds
       /\ (TickEnd /\ ~SeenOrb /\ ~SeenCrash) =>
            UNCHANGED <<head, direction, image, body, orb>>]_vars

\* After move_snake, check_collisions ran with the head on neither the orb
\* nor a segment of a non-empty body.
C10_Witness ==
    /\ ran = <<"move_snake", "check_collisions">>
    /\ Len(body) >= 1
    /\ ~SeenOrb /\ ~SeenCrash
    /\ cmds = NoCmds

\* C11: in every reachable state exactly one head and exactly one orb exist
\* and no single_mut().unwrap() has failed.
C11_OneHeadOneOrb == heads = 1 /\ orbs = 1 /\ ~panicked

\* Between ticks, after a crash and two orbs consumed since.
C11_Witness ==
    /\ ran = <<>>
    /\ image = "head_2.png"
    /\ consumed = 2
    /\ heads = 1 /\ orbs = 1

\* The displacement of one cell in each heading.
CellAhead ==
    [d \in Direction |->
        CASE d = "Up" -> <<0, OBJECT_SIZE>>
          [] d = "Down" -> <<0, -OBJECT_SIZE>>
          [] d = "Left" -> <<-OBJECT_SIZE, 0>>
          [] d = "Right" -> <<OBJECT_SIZE, 0>>]

\* C12: a check_collisions pass that finds a crash, and the end of its tick,
\* leave the head's position and heading as they were; after a crash every
\* movement still advances the head by one cell in its heading, and the
\* movement of a new tick is never blocked (Spec's reach aside).
C12_CrashKeepsHeadMoving ==
    [][/\ (CheckStep /\ \E k \in DOMAIN body : body[k] = head) =>
            (head' = head /\ direction' = direction)
       /\ (TickEnd /\ SeenCrash) => (head' = head /\ direction' = direction)
       /\ (MoveStep /\ image = "head_2.png") =>
            /\ head'[1] = head[1] + CellAhead[direction][1]
            /\ head'[2] = head[2] + CellAhead[direction][2]
       /\ (image' = "head_2.png" /\ ran' = <<>>
             /\ InReach(step(head', direction'))) =>
            (ENABLED move_snake)']_vars

\* A tick after a crash has moved the bodiless head.
C12_Witness ==
    /\ ran = <<"move_snake">>
    /\ image = "head_2.png"
    /\ body = <<>>
    /\ head # <<0, 0>>

\* C13: a movement changes the head's coordinate on the axis of its heading
\* only, by one cell or by one cell and a wrap of the full extent, and leaves
\* the other coordinate, the heading, the orb and the number of body segments
\* as they were.
C13_MovesOnHeadingAxisOnly ==
    [][head' # head =>
        LET axis == IF direction \in {"Up", "Down"} THEN 2 ELSE 1
            other == 3 - axis
            extent == IF axis = 2 THEN WINDOW_HEIGHT ELSE WINDOW_WIDTH
            ahead == CellAhead[direction][axis]
            wrap == IF ahead > 0 THEN -extent ELSE extent
        IN /\ head'[other] = head[other]
           /\ head'[axis] - head[axis] \in {ahead, ahead + wrap}
           /\ direction' = direction
           /\ orb' = orb
           /\ Len(body') = Len(body)]_vars

\* A step Right has just wrapped the head from the right edge to the left.
C13_Witness ==
    /\ heading_moved = "Right"
    /\ head[1] = -(WINDOW_WIDTH \div 2) + OBJECT_SIZE
    /\ body = << <<WINDOW_WIDTH \div 2, head[2]>> >>

\* C14: when check_collisions finds the head on a body segment and on the
\* orb in the same pass, it queues the despawn of every existing segment and
\* one spawn and redraws the orb among the grid cells; the tick ends with
\* exactly one segment, the new one.
C14_CrashThenGrow ==
    [][/\ (CheckStep /\ head = orb /\ \E k \in DOMAIN body : body[k] = head) =>
            /\ cmds'.despawn = DOMAIN body
            /\ cmds'.spawn = <<head>>
            /\ \E i, j \in RandomRange : orb' = get_random_position(i, j)
       /\ (TickEnd /\ SeenCrash /\ SeenOrb) =>
            (Len(body') = 1 /\ body'[1] = seen.head)]_vars

\* After move_snake, check_collisions found the head on the orb and on one
\* of two segments.
C14_Witness ==
    /\ ran = <<"move_snake", "check_collisions">>
    /\ SeenCrash /\ SeenOrb
    /\ Len(body) = 2
    /\ Len(cmds.spawn) = 1

C16_NoReversalBetweenMoves ==
    [][(head' # head /\ heading_moved \in Direction) =>
        /\ direction # OppositeHeading[heading_moved]
        /\ body # <<>> => head' # body[1]]_vars

\* The number of cells on an axis of the grid.
CellsPerAxis == WINDOW_WIDTH \div OBJECT_SIZE

\* The translation after n steps in heading d.
RECURSIVE step_n(_, _, _)
step_n(translation, d, n) ==
    IF n = 0 THEN translation ELSE step_n(step(translation, d), d, n - 1)

\* C17: from every head position the program reaches, 16 movements in one
\* heading bring the head back to that position.
C17_SixteenStepsReturn == step_n(head, direction, CellsPerAxis) = head

\* C18: a head that shares the orb's column and heads Up or Down, or shares
\* its row and heads Left or Right, is on the orb's cell after at most 16
\* movements in that heading.
C18_ReachesAlignedOrb ==
    ((direction \in {"Up", "Down"} /\ head[1] = orb[1])
        \/ (direction \in {"Left", "Right"} /\ head[2] = orb[2])) =>
        \E n \in 1..CellsPerAxis : step_n(head, direction, n) = orb

\* C19: the orb is always on a cell whose coordinates are multiples of 32
\* in [-256, 224]; and when the head is on the orb, the relocation can put
\* the orb on any such cell, the cell it is leaving (the head's) and the
\* cells under body segments included.
C19_OrbOnGridAnywhere ==
    /\ orb[1] % OBJECT_SIZE = 0
    /\ orb[2] % OBJECT_SIZE = 0
    /\ -(WINDOW_WIDTH \div 2) <= orb[1]
    /\ orb[1] <= WINDOW_WIDTH \div 2 - OBJECT_SIZE
    /\ -(WINDOW_HEIGHT \div 2) <= orb[2]
    /\ orb[2] <= WINDOW_HEIGHT \div 2 - OBJECT_SIZE
    /\ (head = orb /\ heads = 1 /\ orbs = 1 /\ ENABLED check_collisions_any) =>
        /\ \A i, j \in RandomRange :
              ENABLED (check_collisions_any /\ orb' = get_random_position(i, j))
        /\ ENABLED (check_collisions_any /\ orb' = head)
        /\ \A k \in DOMAIN body :
              ENABLED (check_collisions_any /\ orb' = body[k])

\* An orb was consumed this tick and its relocation put it back on the cell
\* it left, under the head, with a body segment in the game.
C19_Witness ==
    /\ ran = <<"move_snake", "check_collisions">>
    /\ SeenOrb
    /\ orb = seen.orb
    /\ orb = head
    /\ body # <<>>

\* C20: between ticks no two body segments are on the same cell.
C20_SegmentsApart ==
    ran = <<>> => \A a, b \in DOMAIN body : a # b => body[a] # body[b]

====
